---- MODULE Spec2Model ----
(***************************************************************************)
(* InstaMax (src/instamax/instamax.py): maximize_image, the fit-and-       *)
(* letterbox transform.  One call is modelled statement by statement; pc   *)
(* is the position inside maximize_image.                                  *)
(*                                                                         *)
(* Arithmetic is that of the interpreter the file is written for: the      *)
(* explicit float() casts and int(round(..)) show Python 2, where `/` on   *)
(* two ints is floor division and round() rounds halves away from zero.    *)
(* The scaled dimension is round(dim * scale_factor) on doubles; for image *)
(* sizes the double product is on the same side of every half-integer as   *)
(* the exact quotient, except at exact ties, where it lands on either side *)
(* (500x2000 -> 338, 39x52 -> 1012 for the exact 1012.5).  A tie is        *)
(* therefore a choice between the two neighbouring integers.               *)
(*                                                                         *)
(* PIL is the collaborator: rotate by 90/270 with expand=True swaps the    *)
(* dimensions, resize rejects a size with a component below 1, paste       *)
(* rejects a box whose size differs from the pasted image, new and save    *)
(* keep the size they are given.                                           *)
(***************************************************************************)
EXTENDS Integers, Sequences, FiniteSets, TLC

VARIABLES pc, run, err, args, img, angle, width, height, new_width, new_height,
          scaled_img, color, background_img, left, upper, right, lower,
          quality, output

vars == <<pc, run, err, args, img, angle, width, height, new_width, new_height,
          scaled_img, color, background_img, left, upper, right, lower,
          quality, output>>

INSTA_MAX_WIDTH == 1080
INSTA_MAX_HEIGHT == 1350

\* Keys of PIL.ImageColor.colormap that the model uses (all keys are lower case).
AVAILABLE_COLOR_MAP == {"white", "black", "red"}

----------------------------------------------------------------------------
\* Bounds and input sets

MaxDim == 4

\* Larger sizes: a width that ties in the width-bound branch, the target box,
\* and a side long enough for the other side to scale below half a pixel.
ProbeDims == {16, INSTA_MAX_WIDTH, INSTA_MAX_HEIGHT, 2701}

Dims == (1 .. MaxDim) \cup ProbeDims

None == [some |-> FALSE]

Str(s) == [some |-> TRUE, val |-> s]

RotateArgs ==
    { None,
      Str(<<>>),
      Str(<<"c","l","o","c","k","w","i","s","e">>),
      Str(<<"C","l","o","c","K","W","i","s","e">>),
      Str(<<"c","o","u","n","t","e","r","-","c","l","o","c","k","w","i","s","e">>),
      Str(<<"C","O","U","N","T","E","R","-","C","L","O","C","K","W","I","S","E">>),
      Str(<<"s","i","d","e","w","a","y","s">>) }

ColorArgs == {"white", "red", "White", "not-a-color"}

QualityArgs ==
    {None} \cup { [some |-> TRUE, val |-> q] : q \in {-5, 0, 1, 75, 100, 150} }

----------------------------------------------------------------------------
\* Helpers

\* str.lower() on the letters the arguments use; other characters are unchanged.
LowerChar(c) ==
    CASE c = "C" -> "c" [] c = "L" -> "l" [] c = "O" -> "o" [] c = "K" -> "k"
      [] c = "W" -> "w" [] c = "I" -> "i" [] c = "S" -> "s" [] c = "E" -> "e"
      [] c = "U" -> "u" [] c = "N" -> "n" [] c = "T" -> "t" [] c = "R" -> "r"
      [] OTHER -> c

LowerIdentity(s) == s

str_lower(s) == [i \in 1 .. Len(s) |-> LowerChar(s[i])]

CLOCKWISE == <<"c","l","o","c","k","w","i","s","e">>

COUNTER_CLOCKWISE ==
    <<"c","o","u","n","t","e","r","-","c","l","o","c","k","w","i","s","e">>

\* Truthiness of an optional string: None and '' are falsy.
Truthy(r) == r.some /\ r.val # <<>>

\* Lines 68-72: the angle handed to img.rotate, 0 when no rotation is requested.
RotationAngle(r) ==
    IF Truthy(r) /\ str_lower(r.val) = CLOCKWISE THEN 270
    ELSE IF Truthy(r) /\ str_lower(r.val) = COUNTER_CLOCKWISE THEN 90
    ELSE 0

\* img.rotate(angle, expand=True) for a quarter turn: the size is transposed.
Rotated(size, a) == IF a \in {90, 270} THEN <<size[2], size[1]>> ELSE size

\* Lines 77-78: INSTA_MAX_HEIGHT / INSTA_MAX_WIDTH < height / width, on reals.
TallerInverted(w, h) == INSTA_MAX_HEIGHT * w > INSTA_MAX_WIDTH * h

Taller(w, h) == INSTA_MAX_HEIGHT * w < INSTA_MAX_WIDTH * h

\* int(round(n / d)) for n >= 0, d > 0; up decides an exact tie.
RoundTruncate(n, d, up) == n \div d

Round(n, d, up) ==
    LET q == n \div d
        r == n % d
    IN  IF 2 * r > d THEN q + 1
        ELSE IF 2 * r < d THEN q
        ELSE IF up THEN q + 1 ELSE q

\* Lines 79-81 and 85-87: the free dimension, other * (bound / bound_src).
ScaledWrongAxis(other, bound, boundSrc, up) == Round(other * bound, other, up)

Scaled(other, bound, boundSrc, up) == Round(other * bound, boundSrc, up)

\* Lines 99 and 101: (max / 2) - (new / 2) with integer division.
CenterFlushRight(max, new) == max - new

Center(max, new) == (max \div 2) - (new \div 2)

\* Lines 92-93: fall back to 'white' for a name that is not a key.
BackgroundBlack(c) == IF c \in AVAILABLE_COLOR_MAP THEN c ELSE "black"

Background(c) == IF c \in AVAILABLE_COLOR_MAP THEN c ELSE "white"

\* Lines 106-111 for an integer quality.
CheckQuality(q) ==
    IF q # 0 /\ q < 1 THEN 1
    ELSE IF q # 0 /\ q > 100 THEN 100
    ELSE q

----------------------------------------------------------------------------
\* State machine

Init ==
    /\ pc = "idle"
    /\ run = 1
    /\ err = "none"
    /\ args = [input_file |-> <<0, 0>>, rotate |-> None, color |-> "white",
               quality |-> None]
    /\ img = <<0, 0>>
    /\ angle = 0
    /\ width = 0
    /\ height = 0
    /\ new_width = 0
    /\ new_height = 0
    /\ scaled_img = <<0, 0>>
    /\ color = "white"
    /\ background_img = [size |-> <<0, 0>>, color |-> "white"]
    /\ left = 0
    /\ upper = 0
    /\ right = 0
    /\ lower = 0
    /\ quality = None
    /\ output = [size |-> <<0, 0>>, quality |-> 0]

\* Line 66: the call and PIL.Image.open of a w x h image.
Open ==
    /\ pc = "idle"
    /\ run = 1
    /\ \E w \in Dims, h \in Dims, r \in RotateArgs, c \in ColorArgs,
          q \in QualityArgs :
          /\ args' = [input_file |-> <<w, h>>, rotate |-> r, color |-> c,
                       quality |-> q]
          /\ img' = <<w, h>>
          /\ color' = c
          /\ quality' = q
    /\ pc' = "opened"
    /\ UNCHANGED <<run, err, angle, width, height, new_width, new_height,
                   scaled_img, background_img, left, upper, right, lower,
                   output>>

\* Lines 68-72.
Rotate ==
    /\ pc = "opened"
    /\ angle' = RotationAngle(args.rotate)
    /\ img' = Rotated(img, angle')
    /\ pc' = "rotated"
    /\ UNCHANGED <<run, err, args, width, height, new_width, new_height,
                   scaled_img, color, background_img, left, upper, right,
                   lower, quality, output>>

\* Lines 74-87.
Fit ==
    /\ pc = "rotated"
    /\ width' = img[1]
    /\ height' = img[2]
    /\ \E up \in BOOLEAN :
          IF Taller(img[1], img[2])
          THEN /\ new_height' = INSTA_MAX_HEIGHT
               /\ new_width' = Scaled(img[1], INSTA_MAX_HEIGHT, img[2], up)
          ELSE /\ new_width' = INSTA_MAX_WIDTH
               /\ new_height' = Scaled(img[2], INSTA_MAX_WIDTH, img[1], up)
    /\ pc' = "fitted"
    /\ UNCHANGED <<run, err, args, img, angle, scaled_img, color,
                   background_img, left, upper, right, lower, quality, output>>

\* Line 89: img.resize((new_width, new_height), BICUBIC).
Resize ==
    /\ pc = "fitted"
    /\ IF new_width < 1 \/ new_height < 1
       THEN /\ pc' = "failed"
            /\ err' = "collaborator"
            /\ UNCHANGED scaled_img
       ELSE /\ pc' = "resized"
            /\ scaled_img' = <<new_width, new_height>>
            /\ UNCHANGED err
    /\ UNCHANGED <<run, args, img, angle, width, height, new_width, new_height,
                   color, background_img, left, upper, right, lower, quality,
                   output>>

\* Lines 91-96.
NewBackground ==
    /\ pc = "resized"
    /\ color' = Background(color)
    /\ background_img' = [size |-> <<INSTA_MAX_WIDTH, INSTA_MAX_HEIGHT>>,
                          color |-> color']
    /\ pc' = "canvas"
    /\ UNCHANGED <<run, err, args, img, angle, width, height, new_width,
                   new_height, scaled_img, left, upper, right, lower, quality,
                   output>>

\* Lines 98-103.
Paste ==
    /\ pc = "canvas"
    /\ left' = Center(INSTA_MAX_WIDTH, new_width)
    /\ right' = left' + new_width
    /\ upper' = Center(INSTA_MAX_HEIGHT, new_height)
    /\ lower' = upper' + new_height
    /\ IF <<right' - left', lower' - upper'>> = scaled_img
       THEN pc' = "pasted" /\ UNCHANGED err
       ELSE pc' = "failed" /\ err' = "collaborator"
    /\ UNCHANGED <<run, args, img, angle, width, height, new_width, new_height,
                   scaled_img, color, background_img, quality, output>>

\* Lines 105-111: int(None) raises TypeError in the else branch.
Quality ==
    /\ pc = "pasted"
    /\ IF quality.some
       THEN /\ quality' = [some |-> TRUE, val |-> CheckQuality(quality.val)]
            /\ pc' = "checked"
            /\ UNCHANGED err
       ELSE /\ pc' = "failed"
            /\ err' = "own"
            /\ UNCHANGED quality
    /\ UNCHANGED <<run, args, img, angle, width, height, new_width, new_height,
                   scaled_img, color, background_img, left, upper, right,
                   lower, output>>

\* Lines 113-117.
Save ==
    /\ pc = "checked"
    /\ output' = [size |-> background_img.size, quality |-> quality.val]
    /\ pc' = "saved"
    /\ UNCHANGED <<run, err, args, img, angle, width, height, new_width,
                   new_height, scaled_img, color, background_img, left, upper,
                   right, lower, quality>>

\* A second call on the file the first call wrote, without rotation.
Reopen ==
    /\ pc = "saved"
    /\ run = 1
    /\ run' = 2
    /\ args' = [args EXCEPT !.input_file = output.size, !.rotate = None]
    /\ img' = output.size
    /\ color' = args.color
    /\ quality' = args.quality
    /\ pc' = "opened"
    /\ UNCHANGED <<err, angle, width, height, new_width, new_height,
                   scaled_img, background_img, left, upper, right, lower,
                   output>>

Next ==
    \/ Open
    \/ Rotate
    \/ Fit
    \/ Resize
    \/ NewBackground
    \/ Paste
    \/ Quality
    \/ Save
    \/ Reopen

Spec == Init /\ [][Next]_vars

----------------------------------------------------------------------------
\* Positions of maximize_image at which a value has been computed

AfterRotate == {"rotated", "fitted", "resized", "canvas", "pasted", "checked", "saved"}

AfterFit == {"fitted", "resized", "canvas", "pasted", "checked", "saved"}

AfterBackground == {"canvas", "pasted", "checked", "saved"}

AfterPaste == {"pasted", "checked", "saved"}

----------------------------------------------------------------------------
\* Properties

\* C1: for every source with width, height >= 1 and every rotate, color and
\* quality argument the call completes, and the encoded image is 1080 x 1350.
C1_CompletesAtTargetSize ==
    /\ pc # "failed"
    /\ pc = "saved" => output.size = <<1080, 1350>>

\* C2: a source no taller than the target ratio is fitted to width 1080 and
\* height <= 1350; a taller one to height 1350 and width <= 1080.
C2_FitWithinBox ==
    pc \in AfterFit =>
        IF 1080 * height <= 1350 * width
        THEN new_width = 1080 /\ new_height <= 1350
        ELSE new_height = 1350 /\ new_width <= 1080

C2_Witness ==
    /\ pc = "fitted"
    /\ 1080 * height > 1350 * width
    /\ new_height = 1350
    /\ new_width > 0
    /\ new_width < 1080

\* C3: the free fitted dimension is the exactly scaled value rounded to the
\* nearest integer, i.e. within half a pixel of it.
C3_NearestPixel ==
    pc \in AfterFit =>
        LET Abs(x) == IF x < 0 THEN -x ELSE x
        IN  IF 1080 * height > 1350 * width
            THEN 2 * Abs(new_width * height - 1350 * width) <= height
            ELSE 2 * Abs(new_height * width - 1080 * height) <= width

C3_Witness ==
    /\ pc = "fitted"
    /\ 1080 * height > 1350 * width
    /\ new_width * height > 1350 * width
    /\ 2 * (new_width * height - 1350 * width) < height

\* C4: the paste rectangle has the fitted size, lies inside the canvas and is
\* centred with opposite margins differing by at most one pixel.
C4_PlacementCentred ==
    pc \in AfterPaste =>
        LET Abs(x) == IF x < 0 THEN -x ELSE x
        IN  /\ {left, upper, right, lower} \subseteq Int
            /\ right - left = new_width
            /\ lower - upper = new_height
            /\ 0 <= left /\ right <= 1080
            /\ 0 <= upper /\ lower <= 1350
            /\ Abs(left - (1080 - right)) <= 1
            /\ Abs(upper - (1350 - lower)) <= 1

C4_Witness ==
    /\ pc = "pasted"
    /\ new_width % 2 = 1
    /\ left > 0
    /\ left = (1080 - right) + 1

\* C5: an integer quality reaches the encoder clamped to 1..100; 0 and -5
\* become 1, 150 becomes 100, 75 is unchanged.
C5_QualityClamped ==
    (pc = "saved" /\ args.quality.some) =>
        LET q == args.quality.val
        IN  output.quality = IF q < 1 THEN 1 ELSE IF q > 100 THEN 100 ELSE q

\* C6: any casing of "clockwise" asks for 270 degrees, any casing of
\* "counter-clockwise" for 90 degrees, anything else for no rotation; the fit
\* uses the size after this step, transposed exactly when a rotation was made.
C6_RotateSelection ==
    pc \in AfterRotate =>
        LET UpperChar(c) ==
                CASE c = "c" -> "C" [] c = "l" -> "L" [] c = "o" -> "O"
                  [] c = "k" -> "K" [] c = "w" -> "W" [] c = "i" -> "I"
                  [] c = "s" -> "S" [] c = "e" -> "E" [] c = "u" -> "U"
                  [] c = "n" -> "N" [] c = "t" -> "T" [] c = "r" -> "R"
                  [] OTHER -> c
            AnyCasing(t) ==
                /\ args.rotate.some
                /\ Len(args.rotate.val) = Len(t)
                /\ \A i \in 1 .. Len(t) :
                      args.rotate.val[i] \in {t[i], UpperChar(t[i])}
            cw == AnyCasing(<<"c","l","o","c","k","w","i","s","e">>)
            ccw == AnyCasing(<<"c","o","u","n","t","e","r","-",
                               "c","l","o","c","k","w","i","s","e">>)
            src == args.input_file
        IN  /\ err = "none"
            /\ angle = IF cw THEN 270 ELSE IF ccw THEN 90 ELSE 0
            /\ img = IF cw \/ ccw THEN <<src[2], src[1]>> ELSE src
            /\ pc \in AfterFit => <<width, height>> = img

C6_Witness ==
    /\ pc = "fitted"
    /\ args.rotate = Str(<<"C","l","o","c","K","W","i","s","e">>)
    /\ angle = 270
    /\ args.input_file = <<2, 3>>
    /\ <<width, height>> = <<3, 2>>

\* C7: a color that is a key of the table fills the canvas unchanged; any other
\* name fills it with "white", without a failure.
C7_ColorFallback ==
    pc \in AfterBackground =>
        /\ err = "none"
        /\ args.color \in AVAILABLE_COLOR_MAP => background_img.color = args.color
        /\ args.color \notin AVAILABLE_COLOR_MAP => background_img.color = "white"

C7_Witness ==
    /\ pc = "canvas"
    /\ args.color = "not-a-color"
    /\ background_img.color = "white"

\* C8: no step of maximize_image's own logic fails, whatever rotate, color and
\* quality (None included) are; only a collaborator's failure ends a call.
C8_NoOwnFailure == err # "own"

\* C9: the transform applied to its own output, without rotation, fits to
\* exactly 1080 x 1350, pastes at (0, 0, 1080, 1350) and writes 1080 x 1350.
C9_OutputIsFixpoint ==
    run = 2 =>
        /\ pc # "failed"
        /\ pc \in AfterFit => <<new_width, new_height>> = <<1080, 1350>>
        /\ pc \in AfterPaste => <<left, upper, right, lower>> = <<0, 0, 1080, 1350>>
        /\ pc = "saved" => output.size = <<1080, 1350>>

C9_Witness ==
    /\ run = 2
    /\ pc = "saved"
    /\ args.input_file = <<1080, 1350>>
    /\ <<left, upper, right, lower>> = <<0, 0, 1080, 1350>>

\* C10: for every source with width, height >= 1 both fitted dimensions handed
\* to resize are at least 1.
C10_FittedSizePositive ==
    (pc \in AfterFit /\ width >= 1 /\ height >= 1) =>
        (new_width >= 1 /\ new_height >= 1)

====
